---- MODULE Spec2Model ----
(***************************************************************************)
(* Model of hunt-mmr: the attribute-mapping codec of SerializableTeam      *)
(* (src/hunt/attributes/team.py), the team/player enumeration it feeds,    *)
(* and the file-modified callback of src/main.py with its watchdog.        *)
(*                                                                         *)
(* Text is modelled by TLA+ strings; keys and encoded values are built and *)
(* taken apart character by character (\o, Head, Tail, SubSeq, Len).       *)
(***************************************************************************)
EXTENDS Integers, Sequences, FiniteSets, TLC

VARIABLES
    pc,            \* position of the scenario being run
    team_id,       \* team index handed to serialize / _generate_prefix
    other_id,      \* second team index (deserialize index, second prefix)
    player_ids,    \* <<player index, second player index>>
    prefixes,      \* the generated prefixes
    gen,           \* position of a live _data_mappings() generator
    yielded,       \* the pairs that generator has yielded so far
    entity,        \* the SerializableTeam being serialized
    root,          \* the attribute store (attributes of the XML root)
    decoded,       \* outcome of the last deserialize
    teams,         \* outcome of the last parse_teams
    file,          \* content of the attributes file on disk
    TEAM_HASHES,   \* src/main.py:16
    disk,          \* saved match files: set of <<day, crc32>>
    today,         \* the day datetime.now() falls on
    calls,         \* how often save_teams_to_file / log_player_data ran, per hash
    outcome        \* <<the one before ended in an XML error, how the last event ended>>

vars == <<pc, team_id, other_id, player_ids, prefixes, gen, yielded, entity,
          root, decoded, teams, file, TEAM_HASHES, disk, today, calls, outcome>>

schemaVars == <<team_id, other_id, player_ids, prefixes, gen, yielded>>
codecVars  == <<entity, decoded>>
watchVars  == <<file, TEAM_HASHES, disk, today, calls, outcome>>

None == "None"

-----------------------------------------------------------------------------
(* Bounds *)

MaxIndex == 11        \* indices handed to the prefix generators: 0..MaxIndex
MaxTeamIndex == 2     \* team indices populated in a store: 0..MaxTeamIndex
MaxPlayers == 1       \* players populated per team: 0..MaxPlayers
HashSpace == 5        \* hash(teams) falls in 0..HashSpace-1
CrcSpace == 7         \* crc32 of the dump falls in 0..CrcSpace-1
MaxDay == 1           \* days the process runs through: 0..MaxDay

-----------------------------------------------------------------------------
(* Text: decimal formatting and parsing, lower-casing *)

Digits == "0123456789"
UpperLetters == "ABCDEFGHIJKLMNOPQRSTUVWXYZ"
LowerLetters == "abcdefghijklmnopqrstuvwxyz"

CharAt(s, i) == SubSeq(s, i, i)

RECURSIVE NatToStr(_)
NatToStr(n) ==
    IF n < 10 THEN CharAt(Digits, n + 1)
    ELSE NatToStr(n \div 10) \o CharAt(Digits, (n % 10) + 1)

\* str(int) / f"{int}"
IntToStr(n) == IF n < 0 THEN "-" \o NatToStr(-n) ELSE NatToStr(n)

\* decimal digit -> its value
DigitOf == [c \in {CharAt(Digits, d) : d \in 1..10} |->
               (CHOOSE d \in 1..10 : CharAt(Digits, d) = c) - 1]

IsDigit(c) == c \in DOMAIN DigitOf
DigitVal(c) == DigitOf[c]

RECURSIVE AllDigits(_)
AllDigits(s) == Len(s) = 0 \/ (IsDigit(Head(s)) /\ AllDigits(Tail(s)))

IsDecimal(s) ==
    LET body == IF Len(s) > 0 /\ Head(s) = "-" THEN Tail(s) ELSE s
    IN  Len(body) > 0 /\ AllDigits(body)

RECURSIVE ParseNat(_)
ParseNat(s) ==
    IF Len(s) = 0 THEN 0
    ELSE ParseNat(SubSeq(s, 1, Len(s) - 1)) * 10 + DigitVal(CharAt(s, Len(s)))

StrToInt(s) == IF Head(s) = "-" THEN 0 - ParseNat(Tail(s)) ELSE ParseNat(s)

\* upper-case letter -> lower-case letter
LowerOf == [c \in {CharAt(UpperLetters, i) : i \in 1..26} |->
               CharAt(LowerLetters, CHOOSE i \in 1..26 : CharAt(UpperLetters, i) = c)]

LowerChar(c) == IF c \in DOMAIN LowerOf THEN LowerOf[c] ELSE c

RECURSIVE Lower(_)
Lower(s) == IF Len(s) = 0 THEN "" ELSE LowerChar(Head(s)) \o Lower(Tail(s))

-----------------------------------------------------------------------------
(* Scalar kinds of the codec *)

Encode(kind, value) ==
    CASE kind = "Integer" -> IntToStr(value)
      [] kind = "Boolean" -> (IF value THEN "true" ELSE "false")
      [] kind = "String"  -> value

Decodable(kind, raw) ==
    CASE kind = "Integer" -> IsDecimal(raw)
      [] kind = "Boolean" -> Lower(raw) \in {"true", "false"}
      [] kind = "String"  -> TRUE

Decode(kind, raw) ==
    CASE kind = "Integer" -> StrToInt(raw)
      [] kind = "Boolean" -> (Lower(raw) = "true")
      [] kind = "String"  -> raw

-----------------------------------------------------------------------------
(* Attribute store *)

Get(store, key) == IF key \in DOMAIN store THEN store[key] ELSE None

Set(store, key, value) == (key :> value) @@ store

Remove(store, key) == [k \in (DOMAIN store) \ {key} |-> store[k]]

EmptyStore == [k \in {} |-> ""]

-----------------------------------------------------------------------------
(* SerializableTeam *)

\* the annotated members of the dataclass
SerializableTeam == [handicap |-> "Integer", is_invite |-> "Boolean", mmr |-> "Integer",
                     players_count |-> "Integer", own_team |-> "Boolean"]

\* a generator that formats only the last decimal digit of the index
_generate_prefix_last_digit(id) == "MissionBagTeam_" \o CharAt(Digits, (id % 10) + 1)

_generate_prefix(id) == "MissionBagTeam_" \o IntToStr(id)

\* a registry in which players_count reuses the suffix of mmr
_data_mappings_duplicate_suffix ==
    << <<"handicap", "handicap">>,
       <<"is_invite", "isinvite">>,
       <<"mmr", "mmr">>,
       <<"players_count", "mmr">>,
       <<"own_team", "ownteam">> >>

_data_mappings ==
    << <<"handicap", "handicap">>,
       <<"is_invite", "isinvite">>,
       <<"mmr", "mmr">>,
       <<"players_count", "numplayers">>,
       <<"own_team", "ownteam">> >>

AttributeKey(prefix, suffix) == prefix \o "_" \o suffix

\* the mappings are handled one after the other: the store is written
\* (written is evaluated) before the next mapping is looked at
RECURSIVE SerializeFrom(_, _, _, _, _, _)
SerializeFrom(self, store, prefix, mappings, kinds, i) ==
    IF i > Len(mappings) THEN store
    ELSE LET name == mappings[i][1]
             key  == AttributeKey(prefix, mappings[i][2])
             written == Set(store, key, Encode(kinds[name], self[name]))
         IN  IF key \in DOMAIN written
             THEN SerializeFrom(self, written, prefix, mappings, kinds, i + 1)
             ELSE written

Serializable_serialize(self, store, prefix, mappings, kinds) ==
    SerializeFrom(self, store, prefix, mappings, kinds, 1)

RECURSIVE DeserializeFrom(_, _, _, _, _, _)
DeserializeFrom(store, prefix, mappings, kinds, i, acc) ==
    IF i > Len(mappings) THEN [status |-> "ok", entity |-> acc]
    ELSE LET name == mappings[i][1]
             key  == AttributeKey(prefix, mappings[i][2])
             raw  == Get(store, key)
         IN  IF key \notin DOMAIN store
             THEN [status |-> "MissingAttributeError", key |-> key]
             ELSE IF ~Decodable(kinds[name], raw)
             THEN [status |-> "TypeCoercionError", key |-> key]
             ELSE DeserializeFrom(store, prefix, mappings, kinds, i + 1,
                                  (name :> Decode(kinds[name], raw)) @@ acc)

Serializable_deserialize(store, prefix, mappings, kinds) ==
    DeserializeFrom(store, prefix, mappings, kinds, 1, <<>>)

\* a serialize that addresses the following team index
serialize_next_index(self, store, id) ==
    Serializable_serialize(self, store, _generate_prefix(id + 1), _data_mappings, SerializableTeam)

serialize(self, store, id) ==
    Serializable_serialize(self, store, _generate_prefix(id), _data_mappings, SerializableTeam)

\* a deserialize that addresses the following team index
deserialize_next_index(store, id) ==
    Serializable_deserialize(store, _generate_prefix(id + 1), _data_mappings, SerializableTeam)

\* a deserialize that ignores its team index
deserialize_index_zero(store, id) ==
    Serializable_deserialize(store, _generate_prefix(0), _data_mappings, SerializableTeam)

deserialize(store, id) ==
    Serializable_deserialize(store, _generate_prefix(id), _data_mappings, SerializableTeam)


\* Player addressing: team index and player index composed into one prefix
Player_generate_prefix(id, player_id) ==
    "MissionBagTeam_" \o IntToStr(id) \o "_Player_" \o IntToStr(player_id)

-----------------------------------------------------------------------------
(* Values the scenarios draw from *)

TeamValues ==
    [handicap : {-1, 10}, is_invite : BOOLEAN, mmr : {0, 2500},
     players_count : {3}, own_team : BOOLEAN]

RawValues == {"not-a-number"}

NoResult == [status |-> "none"]

\* a store that already holds another team under index 0
StaleStore ==
    serialize([handicap |-> 7, is_invite |-> TRUE, mmr |-> 1234,
               players_count |-> 1, own_team |-> FALSE], EmptyStore, 0)

IdleWatch ==
    /\ file = None
    /\ TEAM_HASHES = <<>>
    /\ disk = {}
    /\ today = 0
    /\ calls = <<>>
    /\ outcome = <<FALSE, None>>

-----------------------------------------------------------------------------
(* Schema scenario: the prefix generators and the mapping generator *)

InitSchema ==
    /\ pc = "schema"
    /\ team_id \in 0..MaxIndex
    /\ other_id \in 0..MaxIndex
    /\ player_ids \in (0..MaxPlayers) \X (0..MaxPlayers)
    /\ prefixes = <<>>
    /\ gen = 0
    /\ yielded = <<>>
    /\ entity = None
    /\ root = EmptyStore
    /\ decoded = NoResult
    /\ teams = NoResult
    /\ IdleWatch

GeneratePrefixes ==
    /\ pc \in {"schema", "schema_restarted"}
    /\ prefixes = <<>>
    /\ prefixes' = << _generate_prefix(team_id), _generate_prefix(other_id),
                      Player_generate_prefix(team_id, player_ids[1]),
                      Player_generate_prefix(other_id, player_ids[2]) >>
    /\ UNCHANGED <<pc, team_id, other_id, player_ids, gen, yielded, entity, root,
                   decoded, teams, watchVars>>

\* next() on the live generator
MappingsNext ==
    /\ pc \in {"schema", "schema_restarted"}
    /\ gen < Len(_data_mappings)
    /\ gen' = gen + 1
    /\ yielded' = Append(yielded, _data_mappings[gen + 1])
    /\ UNCHANGED <<pc, team_id, other_id, player_ids, prefixes, entity, root,
                   decoded, teams, watchVars>>

\* _data_mappings() called again: a fresh generator
MappingsRestart ==
    /\ pc \in {"schema", "schema_restarted"}
    /\ gen > 0
    /\ gen' = 0
    /\ yielded' = <<>>
    /\ pc' = "schema_restarted"
    /\ UNCHANGED <<team_id, other_id, player_ids, prefixes, entity, root,
                   decoded, teams, watchVars>>

NextSchema == GeneratePrefixes \/ MappingsNext \/ MappingsRestart

SpecSchema == InitSchema /\ [][NextSchema]_vars

-----------------------------------------------------------------------------
(* Codec scenario: serialize a team under team_id, damage the attributes    *)
(* of index other_id, deserialize index other_id                           *)

\* the keys deserialize reads for a team index
MappedKeys(id) ==
    {AttributeKey(_generate_prefix(id), _data_mappings[i][2]) : i \in 1..Len(_data_mappings)}

InitCodec ==
    /\ pc = "codec"
    /\ entity \in TeamValues
    /\ team_id \in 0..MaxTeamIndex
    /\ other_id \in 0..MaxTeamIndex
    /\ root \in {EmptyStore, StaleStore}
    /\ decoded = NoResult
    /\ player_ids = <<0, 0>>
    /\ prefixes = <<>>
    /\ gen = 0
    /\ yielded = <<>>
    /\ teams = NoResult
    /\ IdleWatch

Serialize ==
    /\ pc = "codec"
    /\ root' = serialize(entity, root, team_id)
    /\ pc' = "serialized"
    /\ UNCHANGED <<schemaVars, codecVars, teams, watchVars>>

RemoveAttribute ==
    /\ pc \in {"serialized", "damaged"}
    /\ \E key \in MappedKeys(other_id) \cap DOMAIN root : root' = Remove(root, key)
    /\ pc' = "damaged"
    /\ UNCHANGED <<schemaVars, codecVars, teams, watchVars>>

SetAttribute ==
    /\ pc \in {"serialized", "damaged"}
    /\ \E key \in MappedKeys(other_id) \cap DOMAIN root, raw \in RawValues :
          /\ root[key] # raw
          /\ root' = Set(root, key, raw)
    /\ pc' = "damaged"
    /\ UNCHANGED <<schemaVars, codecVars, teams, watchVars>>

Deserialize ==
    /\ pc \in {"serialized", "damaged"}
    /\ decoded' = deserialize(root, other_id)
    /\ pc' = IF pc = "serialized" THEN "round_trip" ELSE "deserialized"
    /\ UNCHANGED <<schemaVars, entity, root, teams, watchVars>>

NextCodec == Serialize \/ RemoveAttribute \/ SetAttribute \/ Deserialize

SpecCodec == InitCodec /\ [][NextCodec]_vars

-----------------------------------------------------------------------------
(* Player and the entity enumerator *)

\* the members main.py reads from a Player
Player == [name |-> "String", profile_id |-> "Integer", mmr |-> "Integer",
           killed_by_me |-> "Boolean", killed_me |-> "Boolean"]

Player_data_mappings ==
    << <<"name", "blood_line_name">>,
       <<"profile_id", "profileid">>,
       <<"mmr", "mmr">>,
       <<"killed_by_me", "killedbyme">>,
       <<"killed_me", "killedme">> >>

Player_serialize(self, store, id, player_id) ==
    Serializable_serialize(self, store, Player_generate_prefix(id, player_id),
                           Player_data_mappings, Player)

Player_deserialize(store, id, player_id) ==
    Serializable_deserialize(store, Player_generate_prefix(id, player_id),
                             Player_data_mappings, Player)

\* a Team built without the players handed to it
Team_without_players(serializable_team, players) ==
    [handicap |-> serializable_team.handicap,
     is_invite |-> serializable_team.is_invite,
     mmr |-> serializable_team.mmr,
     own_team |-> serializable_team.own_team,
     players |-> <<>>]

\* the final record: the team's own fields and the players it owns
Team(serializable_team, players) ==
    [handicap |-> serializable_team.handicap,
     is_invite |-> serializable_team.is_invite,
     mmr |-> serializable_team.mmr,
     own_team |-> serializable_team.own_team,
     players |-> players]

\* probe player indices player_id, player_id + 1, ... of one team
RECURSIVE parse_players(_, _, _, _)
parse_players(store, id, player_id, acc) ==
    LET probe == Player_deserialize(store, id, player_id)
    IN  CASE probe.status = "MissingAttributeError" -> [status |-> "ok", players |-> acc]
          [] probe.status = "TypeCoercionError" -> probe
          [] probe.status = "ok" ->
                parse_players(store, id, player_id + 1, Append(acc, probe.entity))

\* probe team indices id, id + 1, ...
RECURSIVE parse_teams_from(_, _, _)
parse_teams_from(store, id, acc) ==
    LET probe == deserialize(store, id)
    IN  CASE probe.status = "MissingAttributeError" -> [status |-> "ok", teams |-> acc]
          [] probe.status = "TypeCoercionError" -> probe
          [] probe.status = "ok" ->
                LET owned == parse_players(store, id, 0, <<>>)
                IN  IF owned.status # "ok" THEN owned
                    ELSE parse_teams_from(store, id + 1,
                                          Append(acc, Team(probe.entity, owned.players)))

parse_teams(store) == parse_teams_from(store, 0, <<>>)

-----------------------------------------------------------------------------
(* Enumeration scenario: a snapshot with some teams and players, at most   *)
(* one attribute removed and at most one overwritten, then parsed          *)

SnapshotTeam(id, count) ==
    [handicap |-> id - 1, is_invite |-> (id % 2 = 1), mmr |-> 2500 + 100 * id,
     players_count |-> count, own_team |-> (id = 0)]

SnapshotPlayer(id, player_id) ==
    [name |-> "Hunter" \o IntToStr(id) \o IntToStr(player_id),
     profile_id |-> 100 * id + player_id, mmr |-> 2000 + 10 * id + player_id,
     killed_by_me |-> (player_id = 0), killed_me |-> (id = 1)]

RECURSIVE WritePlayers(_, _, _)
WritePlayers(store, id, count) ==
    IF count = 0 THEN store
    ELSE Player_serialize(SnapshotPlayer(id, count - 1),
                          WritePlayers(store, id, count - 1), id, count - 1)

\* layout[id] = -1: nothing written for the team; otherwise its number of players
RECURSIVE WriteSnapshot(_, _)
WriteSnapshot(layout, upto) ==
    IF upto < 0 THEN EmptyStore
    ELSE LET below == WriteSnapshot(layout, upto - 1)
         IN  IF layout[upto] < 0 THEN below
             ELSE WritePlayers(serialize(SnapshotTeam(upto, layout[upto]), below, upto),
                               upto, layout[upto])

Snapshots ==
    {WriteSnapshot(layout, MaxTeamIndex) :
        layout \in [0..MaxTeamIndex -> (-1)..MaxPlayers]}

InitEnum ==
    /\ pc = "snapshot"
    /\ root \in Snapshots
    /\ teams = NoResult
    /\ entity = None
    /\ decoded = NoResult
    /\ team_id = 0
    /\ other_id = 0
    /\ player_ids = <<0, 0>>
    /\ prefixes = <<>>
    /\ gen = 0
    /\ yielded = <<>>
    /\ IdleWatch

DropAttribute ==
    /\ pc \in {"snapshot", "overwritten"}
    /\ \E key \in DOMAIN root : root' = Remove(root, key)
    /\ pc' = IF pc = "snapshot" THEN "dropped" ELSE "dropped_overwritten"
    /\ UNCHANGED <<schemaVars, codecVars, teams, watchVars>>

OverwriteAttribute ==
    /\ pc \in {"snapshot", "dropped"}
    /\ \E key \in DOMAIN root, raw \in RawValues : root' = Set(root, key, raw)
    /\ pc' = IF pc = "snapshot" THEN "overwritten" ELSE "dropped_overwritten"
    /\ UNCHANGED <<schemaVars, codecVars, teams, watchVars>>

ParseTeams ==
    /\ pc \in {"snapshot", "dropped", "overwritten", "dropped_overwritten"}
    /\ teams' = parse_teams(root)
    /\ pc' = "parsed"
    /\ UNCHANGED <<schemaVars, codecVars, root, watchVars>>

NextEnum == DropAttribute \/ OverwriteAttribute \/ ParseTeams

SpecEnum == InitEnum /\ [][NextEnum]_vars

-----------------------------------------------------------------------------
(* Watch scenario: the game rewrites the attributes file, the watchdog     *)
(* delivers events, the callback parses, deduplicates, saves and logs      *)

AttributesPath == "attributes.xml"

Events ==
    [type : {"FileModifiedEvent", "FileCreatedEvent"},
     src_path : {AttributesPath, "attributes.bak"}]

Malformed == [xml |-> "malformed", attributes |-> EmptyStore]
Document(store) == [xml |-> "well-formed", attributes |-> store]

MatchA == WriteSnapshot([id \in 0..MaxTeamIndex |-> IF id = 0 THEN 1 ELSE -1], MaxTeamIndex)
MatchB == WriteSnapshot([id \in 0..MaxTeamIndex |-> IF id <= 1 THEN 1 ELSE -1], MaxTeamIndex)

FileContents ==
    {Malformed, Document(EmptyStore), Document(MatchA), Document(MatchB),
     Document(Set(MatchA, AttributeKey(_generate_prefix(0), "mmr"), "not-a-number"))}

\* the Python classes a failure of the team parse may surface as
ParseFailureClasses == {"AttributeError", "AssertionError", "ValueError"}

RECURSIVE SumOver(_, _)
SumOver(seq, field) ==
    IF seq = <<>> THEN 0 ELSE seq[1][field] + SumOver(Tail(seq), field)

RECURSIVE Digest(_)
Digest(ts) ==
    IF ts = <<>> THEN 0
    ELSE 3 * Digest(Tail(ts)) + ts[1].mmr + ts[1].handicap + 1
         + SumOver(ts[1].players, "mmr") + SumOver(ts[1].players, "profile_id")

\* hash(teams): the hash of the tuple of frozen dataclasses
hash(ts) == Digest(ts) % HashSpace

\* crc32 of the JSON dump of the teams
crc32(ts) == (Digest(ts) + Len(ts)) % CrcSpace

Range(seq) == {seq[i] : i \in 1..Len(seq)}

\* the return value and the files on disk after the call
save_teams_to_file(ts) ==
    LET teams_hash == crc32(ts)
        exists == \E stored \in disk : stored[1] = today /\ stored[2] = teams_hash
    IN  [exists |-> exists,
         disk |-> IF exists THEN disk ELSE disk \cup {<<today, teams_hash>>}]

\* outcome[1]: the callback before this one ended in the XML parse error
Finished(how) == outcome' = <<outcome[2] = "xml_error", how>>

\* lines 55-79 of the callback, run on the attributes of a well-formed
\* document; known: the hashes the membership test looks through
parse_and_publish(attributes, known) ==
    LET parsed == parse_teams(attributes)
    IN  /\ teams' = parsed
        /\ IF parsed.status # "ok"
           THEN /\ \E class \in ParseFailureClasses :
                      Finished(IF class \in {"AttributeError", "AssertionError"}
                               THEN "parse_error" ELSE "raised")
                /\ UNCHANGED <<TEAM_HASHES, disk, calls>>
           ELSE IF parsed.teams = <<>>
           THEN /\ Finished("zero_teams")
                /\ UNCHANGED <<TEAM_HASHES, disk, calls>>
           ELSE LET team_hash == hash(parsed.teams)
                    saved == save_teams_to_file(parsed.teams)
                IN  IF team_hash \in known
                    THEN /\ Finished("duplicate")
                         /\ UNCHANGED <<TEAM_HASHES, disk, calls>>
                    ELSE /\ TEAM_HASHES' = Append(TEAM_HASHES, team_hash)
                         /\ disk' = saved.disk
                         /\ IF saved.exists
                            THEN /\ calls' = [calls EXCEPT !.save = Append(@, team_hash)]
                                 /\ Finished("already_on_disk")
                            ELSE /\ calls' = [calls EXCEPT !.save = Append(@, team_hash),
                                                           !.log = Append(@, team_hash)]
                                 /\ Finished("logged")

\* the callback without the membership test on TEAM_HASHES
attributes_file_modified_no_hash_check(file_path) ==
    IF file.xml = "malformed"
    THEN /\ Finished("xml_error")
         /\ UNCHANGED <<teams, TEAM_HASHES, disk, calls>>
    ELSE parse_and_publish(file.attributes, {})

\* the callback with ElementTree.parse outside the try block
attributes_file_modified_unguarded(file_path) ==
    IF file.xml = "malformed"
    THEN /\ Finished("raised")
         /\ UNCHANGED <<teams, TEAM_HASHES, disk, calls>>
    ELSE parse_and_publish(file.attributes, Range(TEAM_HASHES))

attributes_file_modified(file_path) ==
    IF file.xml = "malformed"
    THEN \* ElementTree.ParseError: skip the update
         /\ Finished("xml_error")
         /\ UNCHANGED <<teams, TEAM_HASHES, disk, calls>>
    ELSE parse_and_publish(file.attributes, Range(TEAM_HASHES))

on_modified(event) ==
    /\ pc = "watching"
    /\ IF event.type # "FileModifiedEvent" \/ event.src_path # AttributesPath
       THEN /\ Finished("ignored")
            /\ UNCHANGED <<teams, TEAM_HASHES, disk, calls>>
       ELSE attributes_file_modified(AttributesPath)
    /\ UNCHANGED <<pc, schemaVars, codecVars, root, file, today>>

OnModified == \E event \in Events : on_modified(event)

\* the game rewrites the attributes file
GameWritesFile ==
    /\ pc = "watching"
    /\ \E content \in FileContents : content # file /\ file' = content
    /\ UNCHANGED <<pc, schemaVars, codecVars, root, teams, TEAM_HASHES, disk, today,
                   calls, outcome>>

\* midnight passes: datetime.now() names another directory
NextDay ==
    /\ pc = "watching"
    /\ today < MaxDay
    /\ today' = today + 1
    /\ UNCHANGED <<pc, schemaVars, codecVars, root, teams, file, TEAM_HASHES, disk,
                   calls, outcome>>

InitWatch ==
    /\ pc = "watching"
    /\ file \in FileContents
    /\ TEAM_HASHES = <<>>
    /\ disk \in {{}, {<<0, crc32(parse_teams(MatchA).teams)>>}}
    /\ today = 0
    /\ calls = [save |-> <<>>, log |-> <<>>]
    /\ outcome = <<FALSE, None>>
    /\ teams = NoResult
    /\ root = EmptyStore
    /\ entity = None
    /\ decoded = NoResult
    /\ team_id = 0
    /\ other_id = 0
    /\ player_ids = <<0, 0>>
    /\ prefixes = <<>>
    /\ gen = 0
    /\ yielded = <<>>

NextWatch == OnModified \/ GameWritesFile \/ NextDay

SpecWatch == InitWatch /\ [][NextWatch]_vars

-----------------------------------------------------------------------------
(* Properties of the schema scenario *)

\* C5: distinct non-negative team indices get different Team prefixes, and
\* distinct (team index, player index) tuples get different Player prefixes.
PrefixInjectivity ==
    prefixes # <<>> =>
        /\ (team_id # other_id => prefixes[1] # prefixes[2])
        /\ (<<team_id, player_ids[1]>> # <<other_id, player_ids[2]>> => prefixes[3] # prefixes[4])

\* C5 witness: prefixes generated for indices 1 and 11, which share a leading digit
PrefixInjectivityWitness ==
    /\ prefixes # <<>>
    /\ team_id = 1
    /\ other_id = 11
    /\ player_ids = <<0, 1>>

YieldedNames == {yielded[i][1] : i \in 1..Len(yielded)}
YieldedSuffixes == {yielded[i][2] : i \in 1..Len(yielded)}

\* C7: within one iteration of the Team registry no suffix and no member name
\* is yielded twice, only members of the dataclass are yielded, and an
\* exhausted iteration has yielded every member and exactly the suffixes
\* handicap, isinvite, mmr, numplayers, ownteam; this holds on every iteration.
MappingSuffixesUnique ==
    /\ \A i, j \in 1..Len(yielded) :
          i # j => (yielded[i][2] # yielded[j][2] /\ yielded[i][1] # yielded[j][1])
    /\ YieldedNames \subseteq DOMAIN SerializableTeam
    /\ gen = Len(_data_mappings) =>
          /\ YieldedNames = DOMAIN SerializableTeam
          /\ YieldedSuffixes = {"handicap", "isinvite", "mmr", "numplayers", "ownteam"}

\* C7 witness: a second iteration of the registry ran to exhaustion
MappingSuffixesUniqueWitness ==
    /\ pc = "schema_restarted"
    /\ gen = Len(_data_mappings)
    /\ Len(yielded) = 5

-----------------------------------------------------------------------------
(* Properties of the codec scenario *)

\* C1: serializing a team under an index and then deserializing the same
\* index from that store yields an entity equal to the original.
RoundTrip ==
    (pc = "round_trip" /\ other_id = team_id) =>
        decoded = [status |-> "ok", entity |-> entity]

\* C1 witness: a team with a negative handicap and a four-digit mmr went
\* through serialize and deserialize under index 2
RoundTripWitness ==
    /\ pc = "round_trip"
    /\ other_id = team_id
    /\ team_id = 2
    /\ entity.handicap = -1
    /\ entity.mmr = 2500
    /\ entity.own_team
    /\ ~entity.is_invite
    /\ decoded.status = "ok"

Deserialized == pc \in {"round_trip", "deserialized"}

\* positions in the registry whose key is absent / present but not decodable
AbsentAt(store, id) ==
    {i \in 1..5 : AttributeKey("MissionBagTeam_" \o IntToStr(id), _data_mappings[i][2])
                      \notin DOMAIN store}
UndecodableAt(store, id) ==
    {i \in (1..5) \ AbsentAt(store, id) :
        ~Decodable(SerializableTeam[_data_mappings[i][1]],
                   store[AttributeKey("MissionBagTeam_" \o IntToStr(id), _data_mappings[i][2])])}

\* C2 as stated: whenever one of the five mapped keys is absent, deserialize
\* fails with MissingAttributeError; an entity is returned only when all
\* mapped keys were present and decodable.
MissingFieldAlwaysMissingError ==
    Deserialized =>
        /\ (AbsentAt(root, other_id) # {} => decoded.status = "MissingAttributeError")
        /\ (decoded.status = "ok" =>
                AbsentAt(root, other_id) = {} /\ UndecodableAt(root, other_id) = {})

\* C2 amended: whenever one of the five mapped keys is absent, deserialize
\* returns no entity; it fails with MissingAttributeError unless a mapped key
\* earlier in registry order than every absent one is present but not
\* decodable, and then it fails with TypeCoercionError. An entity is returned
\* only when all mapped keys were present and decodable.
MissingFieldFailure ==
    Deserialized =>
        /\ (AbsentAt(root, other_id) # {} =>
               decoded.status =
                  IF \E b \in UndecodableAt(root, other_id) :
                        \A a \in AbsentAt(root, other_id) : b < a
                  THEN "TypeCoercionError" ELSE "MissingAttributeError")
        /\ (decoded.status = "ok" =>
                AbsentAt(root, other_id) = {} /\ UndecodableAt(root, other_id) = {})

\* C2 witness: mmr was removed from a serialized team and deserialize failed
\* with MissingAttributeError on it
MissingFieldFailureWitness ==
    /\ pc = "deserialized"
    /\ AbsentAt(root, other_id) = {3}
    /\ UndecodableAt(root, other_id) = {}
    /\ decoded.status = "MissingAttributeError"

-----------------------------------------------------------------------------
(* Properties of the enumeration scenario *)

StartsWith(s, p) == Len(s) >= Len(p) /\ SubSeq(s, 1, Len(p)) = p

TeamKey(id, suffix) == "MissionBagTeam_" \o IntToStr(id) \o "_" \o suffix

PlayerKey(id, player_id, suffix) ==
    "MissionBagTeam_" \o IntToStr(id) \o "_Player_" \o IntToStr(player_id) \o "_" \o suffix

PlayerSuffixes == {"blood_line_name", "profileid", "mmr", "killedbyme", "killedme"}

\* all five team attributes of the index are present and decodable
Populated(store, id) == AbsentAt(store, id) = {} /\ UndecodableAt(store, id) = {}

\* the store holds no attribute at all, team's or player's, for the index
NothingAt(store, id) ==
    \A key \in DOMAIN store : ~StartsWith(key, "MissionBagTeam_" \o IntToStr(id) \o "_")

PlayerAbsent(store, id, player_id) ==
    \E suffix \in PlayerSuffixes : PlayerKey(id, player_id, suffix) \notin DOMAIN store

PlayerUndecodable(store, id, player_id) ==
    \E suffix \in PlayerSuffixes \ {"blood_line_name"} :
        /\ PlayerKey(id, player_id, suffix) \in DOMAIN store
        /\ store[PlayerKey(id, player_id, suffix)] \in RawValues

\* no player attribute of the team holds an undecodable value
PlayersClean(store, id) ==
    \A player_id \in 0..MaxPlayers : ~PlayerUndecodable(store, id, player_id)

\* the own fields of a returned Team are those the snapshot wrote for the index
IsSnapshotTeam(team, id) ==
    /\ team.handicap = id - 1
    /\ team.is_invite = (id % 2 = 1)
    /\ team.mmr = 2500 + 100 * id
    /\ team.own_team = (id = 0)

\* the least index from id on that is not fully populated: some team
\* attribute is absent or undecodable, or a player attribute is undecodable
RECURSIVE FirstGap(_, _)
FirstGap(store, id) ==
    IF Populated(store, id) /\ PlayersClean(store, id) THEN FirstGap(store, id + 1) ELSE id

\* the least index from id on with a team attribute absent or undecodable
RECURSIVE FirstUnpopulated(_, _)
FirstUnpopulated(store, id) ==
    IF Populated(store, id) THEN FirstUnpopulated(store, id + 1) ELSE id

\* C3: a store fully populated for team indices 0..n-1 that holds nothing for
\* index n is parsed without an error into exactly n teams, in ascending
\* index order; for n = 0 the result is the empty sequence. (An index that
\* holds nothing is not populated, so n can only be the first gap.)
EnumerationTermination ==
    pc = "parsed" =>
        LET n == FirstGap(root, 0)
        IN  NothingAt(root, n)
            => /\ teams.status = "ok"
               /\ Len(teams.teams) = n
               /\ \A id \in 0..(n - 1) : IsSnapshotTeam(teams.teams[id + 1], id)

\* C3 witness: indices 0 and 1 populated, nothing at index 2, two teams returned
EnumerationTerminationWitness ==
    /\ pc = "parsed"
    /\ Populated(root, 0) /\ PlayersClean(root, 0)
    /\ Populated(root, 1) /\ PlayersClean(root, 1)
    /\ NothingAt(root, 2)
    /\ teams.status = "ok"
    /\ Len(teams.teams) = 2

\* C3 witness for n = 0: nothing at index 0 although index 1 is populated
EnumerationEmptyWitness ==
    /\ pc = "parsed"
    /\ NothingAt(root, 0)
    /\ Populated(root, 1)
    /\ teams = [status |-> "ok", teams |-> <<>>]

\* C4 as stated: if at a team index reached by the enumerator a mapped key is
\* present but not decodable, the whole parse fails with TypeCoercionError.
\* (The first index with an absent or undecodable team attribute is reached:
\* every index below it deserializes.)
CoercionErrorWheneverUndecodable ==
    pc = "parsed" =>
        LET id == FirstUnpopulated(root, 0)
        IN  UndecodableAt(root, id) # {} => teams.status = "TypeCoercionError"

\* C4 amended: if at a team index reached by the enumerator a mapped key is
\* present but not decodable, and no mapped key earlier in registry order is
\* absent at that index, the whole parse fails with TypeCoercionError and
\* returns no teams: neither the teams found so far nor a default value.
CoercionErrorIsHardFailure ==
    pc = "parsed" =>
        LET id == FirstUnpopulated(root, 0)
        IN  (\E b \in UndecodableAt(root, id) : \A a \in AbsentAt(root, id) : b < a)
            => /\ teams.status = "TypeCoercionError"
               /\ "teams" \notin DOMAIN teams

\* C4 witness: team 0 is intact, the mmr of team 1 was overwritten with
\* "not-a-number", and the parse failed
CoercionErrorIsHardFailureWitness ==
    /\ pc = "parsed"
    /\ Populated(root, 0)
    /\ UndecodableAt(root, 1) = {3}
    /\ AbsentAt(root, 1) = {}
    /\ teams.status = "TypeCoercionError"

\* C8: if indices 0..n-1 and n+1.. are fully populated and exactly one mapped
\* attribute of index n is missing, the parse does not fail and returns
\* exactly the teams of indices 0..n-1, none of a later index.
SilentTruncation ==
    pc = "parsed" =>
        LET n == FirstGap(root, 0)
        IN  ( /\ n < MaxTeamIndex
              /\ Cardinality(AbsentAt(root, n)) = 1
              /\ UndecodableAt(root, n) = {}
              /\ \A id \in (n + 1)..MaxTeamIndex : Populated(root, id) )
            => /\ teams.status = "ok"
               /\ Len(teams.teams) = n
               /\ \A id \in 0..(n - 1) : IsSnapshotTeam(teams.teams[id + 1], id)

\* C8 witness: team 1 lost one attribute between the intact teams 0 and 2,
\* and only team 0 was returned
SilentTruncationWitness ==
    /\ pc = "parsed"
    /\ Populated(root, 0) /\ PlayersClean(root, 0)
    /\ Cardinality(AbsentAt(root, 1)) = 1
    /\ UndecodableAt(root, 1) = {}
    /\ Populated(root, 2)
    /\ teams.status = "ok"
    /\ Len(teams.teams) = 1

\* the first player index of the team whose probe fails
FirstFailingPlayer(store, id) ==
    CHOOSE k \in 0..(MaxPlayers + 1) :
        /\ PlayerAbsent(store, id, k)
        /\ \A player_id \in 0..(k - 1) : ~PlayerAbsent(store, id, player_id)

\* the Player the snapshot wrote, with the name the store now holds
StoredPlayer(store, id, player_id) ==
    [name |-> store[PlayerKey(id, player_id, "blood_line_name")],
     profile_id |-> 100 * id + player_id,
     mmr |-> 2000 + 10 * id + player_id,
     killed_by_me |-> (player_id = 0),
     killed_me |-> (id = 1)]

-----------------------------------------------------------------------------
(* Properties of the watch scenario *)

ModifiedEvent == [type |-> "FileModifiedEvent", src_path |-> AttributesPath]

\* C6: when the attributes file is not well-formed XML, the file-modified
\* callback returns without raising and without running the team parse, and
\* leaves the recorded hashes and the files on disk as they were.
MalformedXmlIsTransient ==
    [][ (file.xml = "malformed" /\ on_modified(ModifiedEvent)) =>
            /\ outcome'[2] = "xml_error"
            /\ UNCHANGED <<teams, TEAM_HASHES, disk, calls, file>> ]_vars

\* C6 witness: the callback that followed one ending in the XML error went
\* through to saving and logging a match
MalformedXmlIsTransientWitness ==
    /\ outcome = <<TRUE, "logged">>
    /\ Len(TEAM_HASHES) > 0

NoDuplicates(seq) == \A i, j \in 1..Len(seq) : i # j => seq[i] # seq[j]

\* C10: save_teams_to_file and log_player_data run at most once per teams
\* hash, TEAM_HASHES never holds a duplicate, and a callback that ends in an
\* XML parse failure, a team-parse failure or zero teams adds nothing to it.
AtMostOnceProcessing ==
    /\ [](/\ NoDuplicates(TEAM_HASHES)
          /\ NoDuplicates(calls.save)
          /\ NoDuplicates(calls.log)
          /\ Range(calls.log) \subseteq Range(calls.save))
    /\ [][ (OnModified /\ outcome'[2] \in {"xml_error", "parse_error", "raised", "zero_teams"})
               => TEAM_HASHES' = TEAM_HASHES ]_vars

\* C10 witness: two matches were saved and a further callback on one of them
\* was skipped as a duplicate
AtMostOnceProcessingWitness ==
    /\ Len(TEAM_HASHES) = 2
    /\ Len(calls.save) = 2
    /\ outcome[2] = "duplicate"

====
